---- MODULE Spec2Model ----
(***************************************************************************)
(* A model of src/app.py: the Flask task manager (users, categories,       *)
(* tasks in SQLite, a cookie session, the login gate, the listing query    *)
(* and the status function).                                               *)
(*                                                                         *)
(* Text values (form fields, query arguments, TEXT columns) are sequences  *)
(* of character codes, so that strip(), LIKE, strptime() and SQLite's text *)
(* comparison are computed the way the code computes them.                 *)
(***************************************************************************)
EXTENDS Integers, Sequences, FiniteSets, TLC

(* ------------------------------ bounds --------------------------------- *)
MaxUsers == 2
MaxCats == 1
MaxTasks == 2
NumClients == 1
NumSalts == 1

(* ------------------------------ text ----------------------------------- *)
\* A form field or query argument that the request does not carry
\* (request.form.get / request.args.get return None), and SQL NULL in a
\* TEXT column. No text holds the code -1.
Absent == <<0 - 1>>

S_empty == <<>>
S_all == <<97, 108, 108>>
S_created == <<99, 114, 101, 97, 116, 101, 100>>
S_deadline == <<100, 101, 97, 100, 108, 105, 110, 101>>
S_on == <<111, 110>>
S_create_task == <<99, 114, 101, 97, 116, 101, 95, 116, 97, 115, 107>>

\* str.strip(): the characters Python treats as whitespace (ASCII part).
IsSpace(ch) == ch \in {9, 10, 11, 12, 13, 28, 29, 30, 31, 32}

RECURSIVE LStrip(_)
LStrip(s) ==
    IF s # <<>> /\ IsSpace(Head(s)) THEN LStrip(Tail(s)) ELSE s

RECURSIVE RStrip(_)
RStrip(s) ==
    IF s # <<>> /\ IsSpace(s[Len(s)]) THEN RStrip(SubSeq(s, 1, Len(s) - 1)) ELSE s

Strip(s) == RStrip(LStrip(s))

\* Python truthiness of an optional text: None and "" are falsy.
Truthy(s) == s # Absent /\ s # <<>>

\* request.form.get(name, ""): the default for a missing field.
OrEmpty(s) == IF s = Absent THEN <<>> ELSE s

IsDigit(ch) == ch >= 48 /\ ch <= 57

IsDigits(s) == s # <<>> /\ s # Absent /\ \A i \in 1..Len(s) : IsDigit(s[i])

RECURSIVE DigitsValue(_)
DigitsValue(s) ==
    IF s = <<>> THEN 0
    ELSE 10 * DigitsValue(SubSeq(s, 1, Len(s) - 1)) + (s[Len(s)] - 48)

\* SQLite's BINARY collation on TEXT: memcmp, then the shorter first.
TextLess(s, t) ==
    \/ /\ Len(s) < Len(t)
       /\ \A i \in 1..Len(s) : s[i] = t[i]
    \/ \E i \in 1..Len(s) :
          /\ i <= Len(t)
          /\ s[i] < t[i]
          /\ \A j \in 1..(i - 1) : s[j] = t[j]

\* SQLite's LIKE folds the case of ASCII letters only.
Fold(ch) == IF ch >= 65 /\ ch <= 90 THEN ch + 32 ELSE ch

\* SQLite's LIKE: % matches any run of characters, _ exactly one.
RECURSIVE LikeMatch(_, _)
LikeMatch(p, t) ==
    IF p = <<>> THEN t = <<>>
    ELSE IF Head(p) = 37
         THEN \/ LikeMatch(Tail(p), t)
              \/ (t # <<>> /\ LikeMatch(p, Tail(t)))
    ELSE /\ t # <<>>
         /\ (Head(p) = 95 \/ Fold(Head(p)) = Fold(Head(t)))
         /\ LikeMatch(Tail(p), Tail(t))

\* The pattern index builds: f"%{q}%".
LikePattern(q) == <<37>> \o q \o <<37>>

(* ------------------------------ dates ---------------------------------- *)
IsLeap(y) == (y % 4 = 0 /\ y % 100 # 0) \/ y % 400 = 0

DaysInMonth(y, m) ==
    IF m = 2 THEN (IF IsLeap(y) THEN 29 ELSE 28)
    ELSE IF m \in {4, 6, 9, 11} THEN 30 ELSE 31

NoDate == [ok |-> FALSE, y |-> 0, m |-> 0, d |-> 0]

\* The month of %m: 1[0-2] | 0[1-9] | [1-9], followed by the literal "-".
\* Returns the number of characters taken (0: no match).
MonthLen(s) ==
    IF /\ Len(s) >= 8
       /\ IsDigit(s[6]) /\ IsDigit(s[7]) /\ s[8] = 45
       /\ \/ (s[6] = 49 /\ s[7] <= 50)
          \/ (s[6] = 48 /\ s[7] >= 49)
    THEN 2
    ELSE IF Len(s) >= 7 /\ IsDigit(s[6]) /\ s[6] >= 49 /\ s[7] = 45
    THEN 1
    ELSE 0

\* The day of %d at position p: 3[0-1] | [1-2]\d | 0[1-9] | [1-9] | " "[1-9],
\* the first alternative that matches. <<characters taken, value>>.
DayAt(s, p) ==
    LET two == p + 1 <= Len(s) /\ IsDigit(s[p]) /\ IsDigit(s[p + 1])
    IN  IF two /\ s[p] = 51 /\ s[p + 1] <= 49
        THEN <<2, 30 + (s[p + 1] - 48)>>
        ELSE IF two /\ s[p] \in {49, 50}
        THEN <<2, 10 * (s[p] - 48) + (s[p + 1] - 48)>>
        ELSE IF two /\ s[p] = 48 /\ s[p + 1] >= 49
        THEN <<2, s[p + 1] - 48>>
        ELSE IF p <= Len(s) /\ IsDigit(s[p]) /\ s[p] >= 49
        THEN <<1, s[p] - 48>>
        ELSE IF p + 1 <= Len(s) /\ s[p] = 32 /\ IsDigit(s[p + 1]) /\ s[p + 1] >= 49
        THEN <<2, s[p + 1] - 48>>
        ELSE <<0, 0>>

\* datetime.strptime(dl, "%Y-%m-%d").date(): four digits, "-", month, "-",
\* day, nothing left over, and a date that exists (year >= 1, day within the
\* month). Every failure is a ValueError.
ParseDate(s) ==
    IF s = Absent \/ Len(s) < 8 THEN NoDate
    ELSE IF ~(\A i \in 1..4 : IsDigit(s[i])) \/ s[5] # 45 THEN NoDate
    ELSE LET ml == MonthLen(s)
             p == 6 + ml + 1
             day == DayAt(s, p)
             y == DigitsValue(SubSeq(s, 1, 4))
             m == DigitsValue(SubSeq(s, 6, 5 + ml))
         IN  IF ml = 0 \/ day[1] = 0 THEN NoDate
             ELSE IF p + day[1] - 1 # Len(s) THEN NoDate
             ELSE IF y < 1 \/ day[2] > DaysInMonth(y, m) THEN NoDate
             ELSE [ok |-> TRUE, y |-> y, m |-> m, d |-> day[2]]

\* DateLess with <= for <: a deadline of today counts as past.
DateLess_OrEqual(a, b) ==
    \/ a.y < b.y
    \/ (a.y = b.y /\ a.m < b.m)
    \/ (a.y = b.y /\ a.m = b.m /\ a.d <= b.d)

\* date.__lt__
DateLess(a, b) ==
    \/ a.y < b.y
    \/ (a.y = b.y /\ a.m < b.m)
    \/ (a.y = b.y /\ a.m = b.m /\ a.d < b.d)

(* ------------------------------ status --------------------------------- *)
\* compute_task_status(task_row), with date.today() as `today`.
compute_task_status(completed, deadline, today) ==
    IF completed # 0 THEN <<"done", FALSE>>
    ELSE IF Truthy(deadline)
         THEN LET dl_date == ParseDate(deadline)
              IN  IF dl_date.ok
                  THEN (IF DateLess(dl_date, today)
                        THEN <<"overdue", TRUE>>
                        ELSE <<"in_progress", FALSE>>)
                  ELSE <<"in_progress", FALSE>>
         ELSE <<"in_progress", FALSE>>

(* ------------------------------ inputs --------------------------------- *)
Clients == 1..NumClients

S_a == <<97>>
S_b == <<98>>
S_p == <<112>>
S_q == <<113>>
S_c == <<99>>
S_1 == <<49>>
S_sp_a == <<32, 97>>
S_sp == <<32>>
D_jan31 == <<50, 48, 50, 52, 45, 48, 49, 45, 51, 49>>
D_feb1 == <<50, 48, 50, 52, 45, 48, 50, 45, 48, 49>>

\* The values the requests of the model carry.
UsernameForms == {Absent, S_sp, S_sp_a, S_a, S_b}
PasswordForms == {Absent, S_empty, S_p, S_q}
TitleForms == {S_empty, S_sp_a}
DescriptionForms == {Absent}
CategoryForms == {S_empty, S_1}
DeadlineForms == {S_empty, D_jan31, D_feb1}
CompletedForms == {Absent, S_on}
NameForms == {S_sp, S_c}
FormTypes == {Absent, S_create_task}
SearchArgs == {Absent, S_a}
CategoryArgs == {Absent, S_1}
SortArgs == {Absent, S_created}
TaskIds == 1..MaxTasks
Todays == {[ok |-> TRUE, y |-> 2024, m |-> 2, d |-> 1]}
\* The narrow choices: of accounts where the tasks are explored (Spec), of
\* task fields where the accounts are (SpecAuth).
FewUsernames == {S_a, S_b}
FewPasswords == {S_p}
FewTitles == {S_sp_a}
FewCategories == {S_empty}
FewDeadlines == {S_empty}
FewCompleted == {Absent}

(* ------------------------------ state ---------------------------------- *)
VARIABLES
    users,       \* table users: rows [id, username, password_hash], in id order
    categories,  \* table categories: rows [id, user_id, name], in id order
    tasks,       \* table tasks: the set of rows
    task_seq,    \* sqlite_sequence of tasks: the last id AUTOINCREMENT gave
    session,     \* per client, session["user_id"] of its cookie (0: none)
    nav,         \* per client, the next argument of the login URL its browser is on
    gated,       \* per client, the path the gate turned away and login has not yet answered
    resp,        \* the response to the last request
    probe        \* an application of compute_task_status (SpecStatus only)

vars == <<users, categories, tasks, task_seq, session, nav, gated, resp, probe>>

db == <<users, categories, tasks, task_seq>>

(* ------------------------------ paths ---------------------------------- *)
NoPath == <<"", 0>>
P_index == <<"/", 0>>
P_login == <<"/login", 0>>
P_register == <<"/register", 0>>
P_logout == <<"/logout", 0>>
P_home == <<"/home", 0>>
P_add_category == <<"/add_category", 0>>
P_toggle(task_id) == <<"/toggle/", task_id>>
P_delete(task_id) == <<"/delete/", task_id>>
P_edit(task_id) == <<"/edit/", task_id>>

(* ------------------------------ responses ------------------------------ *)
\* What render_template receives: the rows and categories, and the filter
\* and sort selections index echoes.
View(rows, cats, q, selected_category, sort) ==
    [rows |-> rows, cats |-> cats, q |-> q,
     selected_category |-> selected_category, sort |-> sort]

NoView == View(<<>>, <<>>, <<>>, <<>>, <<>>)

\* The answer to a request for `path`. kind: "redirect" (to target, with query
\* argument next), "render" (the template named in target, given view) or
\* "bad_request" (werkzeug's 400 for a missing form key). flash: the message
\* flashed, "" for none. flow: the value of gated when login answered.
Response(client, route, path, kind, flash, target, next, view, flow) ==
    [client |-> client, route |-> route, path |-> path, kind |-> kind,
     flash |-> flash, target |-> target, next |-> next, view |-> view,
     flow |-> flow]

Redirect(client, route, path, flash, target) ==
    Response(client, route, path, "redirect", flash, target, NoPath, NoView, NoPath)

Render(client, route, path, template, view) ==
    Response(client, route, path, "render", "", <<template, 0>>, NoPath, view, NoPath)

BadRequest(client, route, path) ==
    Response(client, route, path, "bad_request", "", NoPath, NoPath, NoView, NoPath)

NoProbe == [completed |-> 0, deadline |-> Absent, today |-> NoDate,
            status |-> "", overdue |-> FALSE]

NoResponse == Response(0, "", NoPath, "", "", NoPath, NoPath, NoView, NoPath)

(* ------------------------------ auth ----------------------------------- *)
\* generate_password_hash: a salted one-way digest of the password.
generate_password_hash(password, salt) == [salt |-> salt, digest |-> <<salt, password>>]

\* check_password_hash: the digest of the candidate under the stored salt.
check_password_hash(pwhash, password) == pwhash.digest = <<pwhash.salt, password>>

UserIds == {users[i].id : i \in 1..Len(users)}

\* current_user trusting the cookie: no lookup of the id in users.
current_user_NoLookup(c) == session[c] # 0

\* current_user(): the users row of session["user_id"], or None (FALSE here).
current_user(c) ==
    IF session[c] = 0 THEN FALSE ELSE session[c] \in UserIds

\* login_required's wrapper, when current_user() is None.
login_required(c, route, path) ==
    /\ resp' = Response(c, route, path, "redirect", "", P_login, path, NoView, NoPath)
    /\ nav' = [nav EXCEPT ![c] = path]
    /\ gated' = [gated EXCEPT ![c] = path]
    /\ UNCHANGED <<db, session, probe>>

\* The browser leaves the login flow.
LeaveFlow(c) ==
    /\ nav' = [nav EXCEPT ![c] = NoPath]
    /\ gated' = [gated EXCEPT ![c] = NoPath]

\* The lookup of a table without UNIQUE(username): no conflict is ever found.
UserByName_None(username) == {}

UserByName(username) ==
    {users[i] : i \in {j \in 1..Len(users) : users[j].username = username}}

(* ------------------------------ public routes -------------------------- *)
\* register(), POST. request.form[...] of a missing key is a 400.
register(c, username_form, password_form) ==
    /\ LeaveFlow(c)
    /\ UNCHANGED <<categories, tasks, task_seq, session, probe>>
    /\ IF username_form = Absent \/ password_form = Absent
       THEN /\ resp' = BadRequest(c, "register", P_register)
            /\ UNCHANGED users
       ELSE LET username == Strip(username_form)
                password == password_form
            IN  IF username = <<>> \/ password = <<>>
                THEN /\ resp' = Redirect(c, "register", P_register, "enter_username_and_password", P_register)
                     /\ UNCHANGED users
                ELSE IF UserByName(username) # {}
                \* UNIQUE(username): sqlite3.IntegrityError
                THEN /\ resp' = Redirect(c, "register", P_register, "username_taken", P_register)
                     /\ UNCHANGED users
                ELSE /\ Len(users) < MaxUsers
                     /\ \E salt \in 1..NumSalts :
                           users' = Append(users,
                               [id |-> Len(users) + 1, username |-> username,
                                password_hash |-> generate_password_hash(password, salt)])
                     /\ resp' = Redirect(c, "register", P_register, "registered", P_login)

\* register(), GET.
register_get(c) ==
    /\ LeaveFlow(c)
    /\ resp' = Render(c, "register", P_register, "register.html", NoView)
    /\ UNCHANGED <<db, session, probe>>

\* LoginOutcome that tells an unknown username from a wrong password.
LoginOutcome_Leaky(c, username_form, password_form, nxt) ==
    LET username == Strip(username_form)
        found == {users[i] : i \in {j \in 1..Len(users) : users[j].username = username}}
        ok == found # {} /\ \E u \in found : check_password_hash(u.password_hash, password_form)
    IN  IF ok
        THEN [resp |-> Response(c, "login", P_login, "redirect", "logged_in",
                                IF nxt # NoPath THEN nxt ELSE P_index,
                                NoPath, NoView, gated[c]),
              uid |-> (CHOOSE u \in found : TRUE).id]
        ELSE [resp |-> Redirect(c, "login", P_login,
                                IF found = {} THEN "unknown_user" ELSE "invalid_credentials",
                                P_login),
              uid |-> session[c]]

\* What login() answers to (username, password) posted to a login URL whose
\* next argument is nxt, with the session as it stands: the response and the
\* session's user id afterwards.
LoginOutcome(c, username_form, password_form, nxt) ==
    LET username == Strip(username_form)
        found == UserByName(username)
        ok == found # {} /\ \E u \in found : check_password_hash(u.password_hash, password_form)
    IN  IF ok
        THEN [resp |-> Response(c, "login", P_login, "redirect", "logged_in",
                                IF nxt # NoPath THEN nxt ELSE P_index,
                                NoPath, NoView, gated[c]),
              uid |-> (CHOOSE u \in found : TRUE).id]
        ELSE [resp |-> Redirect(c, "login", P_login, "invalid_credentials", P_login),
              uid |-> session[c]]

\* login(), POST, from the login URL the browser is on.
login(c, username_form, password_form) ==
    /\ UNCHANGED <<db, probe>>
    /\ IF username_form = Absent \/ password_form = Absent
       THEN /\ resp' = BadRequest(c, "login", P_login)
            /\ UNCHANGED <<session, nav, gated>>
       ELSE LET out == LoginOutcome(c, username_form, password_form, nav[c])
            IN  /\ resp' = out.resp
                /\ session' = [session EXCEPT ![c] = out.uid]
                \* the redirect after a failure is url_for("login"), without next
                /\ nav' = [nav EXCEPT ![c] = NoPath]
                /\ gated' = [gated EXCEPT ![c] =
                                IF out.resp.flash = "logged_in" THEN NoPath ELSE @]

\* login(), GET: the browser opens /login itself.
login_get(c) ==
    /\ LeaveFlow(c)
    /\ resp' = Render(c, "login", P_login, "login.html", NoView)
    /\ UNCHANGED <<db, session, probe>>

\* logout()
logout(c) ==
    /\ LeaveFlow(c)
    /\ session' = [session EXCEPT ![c] = 0]
    /\ resp' = Redirect(c, "logout", P_logout, "logged_out", P_login)
    /\ UNCHANGED <<db, probe>>

\* home_redirect()
home_redirect(c) ==
    /\ LeaveFlow(c)
    /\ resp' = Redirect(c, "home", P_home, "", IF current_user(c) THEN P_index ELSE P_login)
    /\ UNCHANGED <<db, session, probe>>

(* ------------------------------ categories ----------------------------- *)
\* add_category(), behind login_required.
add_category(c, name_form) ==
    IF ~current_user(c) THEN login_required(c, "add_category", P_add_category)
    ELSE LET name == Strip(OrEmpty(name_form))
         IN  /\ LeaveFlow(c)
             /\ UNCHANGED <<users, tasks, task_seq, session, probe>>
             /\ IF name = <<>>
                THEN /\ resp' = Redirect(c, "add_category", P_add_category, "category_name_empty", P_index)
                     /\ UNCHANGED categories
                ELSE /\ Len(categories) < MaxCats
                     /\ categories' = Append(categories,
                            [id |-> Len(categories) + 1, user_id |-> session[c],
                             name |-> name])
                     /\ resp' = Redirect(c, "add_category", P_add_category, "category_added", P_index)

(* ------------------------------ column values ------------------------- *)
RECURSIVE ToDigits(_)
ToDigits(n) ==
    IF n < 10 THEN <<48 + n>> ELSE ToDigits(n \div 10) \o <<48 + (n % 10)>>

\* tasks.category_id has INTEGER affinity: a text that is a decimal number is
\* stored, and compared, as that number; other text stays text. The column
\* value is kept as the number's canonical digits, NULL as Absent. (Signed,
\* padded or fractional numerals are none of the values the requests carry.)
IntegerAffinity(s) == IF IsDigits(s) THEN ToDigits(DigitsValue(s)) ELSE s

\* request.form.get(name) or None
OrNone(s) == IF Truthy(s) THEN s ELSE Absent

\* SQL "=" (NULL equals nothing).
SqlEq(a, b) == a # Absent /\ b # Absent /\ a = b

(* ------------------------------ listing -------------------------------- *)
\* Where without the tenant predicate t.user_id = ?.
Where_AnyUser(t, uid, q, cat) ==
    /\ (q # <<>> => LikeMatch(LikePattern(q), t.title))
    /\ ((Truthy(cat) /\ cat # S_all) => SqlEq(t.category_id, IntegerAffinity(cat)))

\* WHERE t.user_id = ? [AND t.title LIKE ?] [AND t.category_id = ?]
Where(t, uid, q, cat) ==
    /\ t.user_id = uid
    /\ (q # <<>> => LikeMatch(LikePattern(q), t.title))
    /\ ((Truthy(cat) /\ cat # S_all) => SqlEq(t.category_id, IntegerAffinity(cat)))

\* NullRank without the CASE: ORDER BY t.deadline ASC alone.
NullRank_Same(deadline) == 0

\* CASE WHEN t.deadline IS NULL THEN 1 ELSE 0 END
NullRank(deadline) == IF deadline = Absent THEN 1 ELSE 0

\* t.deadline ASC: SQLite puts NULL before every value.
ColumnLess(a, b) ==
    \/ (a = Absent /\ b # Absent)
    \/ (a # Absent /\ b # Absent /\ TextLess(a, b))

\* ORDER BY: whether row a must come before row b.
Before(a, b, sort) ==
    IF sort = S_created
    THEN a.created_at > b.created_at
    ELSE \/ NullRank(a.deadline) < NullRank(b.deadline)
         \/ /\ NullRank(a.deadline) = NullRank(b.deadline)
            /\ ColumnLess(a.deadline, b.deadline)

\* The orders a query may return the rows S in: every arrangement that ORDER
\* BY allows (rows that compare equal come in any order).
Ordered(S, sort) ==
    LET n == Cardinality(S)
    IN  {f \in [1..n -> S] :
            /\ \A i, j \in 1..n : i # j => f[i] # f[j]
            /\ \A i, j \in 1..n : i < j => ~Before(f[j], f[i], sort)}

\* LEFT JOIN categories c ON t.category_id = c.id
CategoryName(t) ==
    LET hit == {i \in 1..Len(categories) : SqlEq(t.category_id, ToDigits(categories[i].id))}
    IN  IF hit = {} THEN Absent ELSE categories[CHOOSE i \in hit : TRUE].name

\* One entry of the tasks list index builds from a row.
TaskView(t, today) ==
    LET st == compute_task_status(t.completed, t.deadline, today)
    IN  [id |-> t.id, title |-> t.title, description |-> t.description,
         category_id |-> t.category_id, category_name |-> CategoryName(t),
         deadline |-> t.deadline, completed |-> (t.completed # 0),
         status |-> st[1], overdue |-> st[2], created_at |-> t.created_at]

\* The task lists index may render for user uid with arguments q, category, sort.
ListTasks(uid, q_arg, cat, sort_arg, today) ==
    LET q == Strip(OrEmpty(q_arg))
        sort == IF sort_arg = Absent THEN S_deadline ELSE sort_arg
        rows == {t \in tasks : Where(t, uid, q, cat)}
    IN  {[i \in 1..Cardinality(rows) |-> TaskView(f[i], today)] : f \in Ordered(rows, sort)}

\* SELECT id, name FROM categories WHERE user_id = ? ORDER BY name
ListCategories(uid) ==
    LET own == {categories[i] : i \in {j \in 1..Len(categories) : categories[j].user_id = uid}}
        n == Cardinality(own)
    IN  {[i \in 1..n |-> [id |-> f[i].id, name |-> f[i].name]] :
            f \in {g \in [1..n -> own] :
                    /\ \A i, j \in 1..n : i # j => g[i] # g[j]
                    /\ \A i, j \in 1..n : i < j => ~TextLess(g[j].name, g[i].name)}}

(* ------------------------------ tasks ---------------------------------- *)
\* The row INSERT INTO tasks writes (completed and created_at by default;
\* CURRENT_TIMESTAMP is the count of inserts: a later row has a later time).
NewTask(uid, title, description, category_id, deadline) ==
    [id |-> task_seq + 1, user_id |-> uid, title |-> title,
     description |-> description, category_id |-> IntegerAffinity(category_id),
     deadline |-> deadline, completed |-> 0, created_at |-> task_seq + 1]

\* index(), GET: the listing.
index(c, q_arg, cat, sort_arg, today) ==
    IF ~current_user(c) THEN login_required(c, "index", P_index)
    ELSE /\ LeaveFlow(c)
         /\ \E rows \in ListTasks(session[c], q_arg, cat, sort_arg, today) :
            \E cats \in ListCategories(session[c]) :
               resp' = Render(c, "index", P_index, "index.html",
                              View(rows, cats, Strip(OrEmpty(q_arg)),
                                   IF Truthy(cat) THEN cat ELSE S_all,
                                   IF sort_arg = Absent THEN S_deadline ELSE sort_arg))
         /\ UNCHANGED <<db, session, probe>>

\* index(), POST: the create form; any other form falls through to the listing.
index_post(c, form_type, title_form, description_form, category_form, deadline_form, today) ==
    IF ~current_user(c) THEN login_required(c, "index", P_index)
    ELSE /\ LeaveFlow(c)
         /\ UNCHANGED <<users, categories, session, probe>>
         /\ IF form_type = S_create_task
            THEN LET title == Strip(OrEmpty(title_form))
                     description == Strip(OrEmpty(description_form))
                     category_id == OrNone(category_form)
                     deadline == OrNone(deadline_form)
                 IN  IF title = <<>>
                     THEN /\ resp' = Redirect(c, "index", P_index, "title_required", P_index)
                          /\ UNCHANGED <<tasks, task_seq>>
                     ELSE /\ task_seq < MaxTasks
                          /\ tasks' = tasks \cup
                                {NewTask(session[c], title, description, category_id, deadline)}
                          /\ task_seq' = task_seq + 1
                          /\ resp' = Redirect(c, "index", P_index, "task_created", P_index)
            ELSE /\ \E rows \in ListTasks(session[c], Absent, Absent, Absent, today) :
                    \E cats \in ListCategories(session[c]) :
                       resp' = Render(c, "index", P_index, "index.html",
                                      View(rows, cats, <<>>, S_all, S_deadline))
                 /\ UNCHANGED <<tasks, task_seq>>

\* SELECT ... FROM tasks WHERE id = ? AND user_id = ?
OwnTask(task_id, uid) == {t \in tasks : t.id = task_id /\ t.user_id = uid}

\* toggle(task_id)
toggle(c, task_id) ==
    IF ~current_user(c) THEN login_required(c, "toggle", P_toggle(task_id))
    ELSE /\ LeaveFlow(c)
         /\ UNCHANGED <<users, categories, task_seq, session, probe>>
         /\ IF OwnTask(task_id, session[c]) = {}
            THEN /\ resp' = Redirect(c, "toggle", P_toggle(task_id), "task_not_found", P_index)
                 /\ UNCHANGED tasks
            ELSE /\ tasks' = {IF t.id = task_id /\ t.user_id = session[c]
                              THEN [t EXCEPT !.completed = IF t.completed # 0 THEN 0 ELSE 1]
                              ELSE t : t \in tasks}
                 /\ resp' = Redirect(c, "toggle", P_toggle(task_id), "status_changed", P_index)

\* DeleteRows by id alone: DELETE FROM tasks WHERE id = ?.
DeleteRows_AnyUser(task_id, uid) == {t \in tasks : t.id # task_id}

\* DELETE FROM tasks WHERE id = ? AND user_id = ?
DeleteRows(task_id, uid) == {t \in tasks : ~(t.id = task_id /\ t.user_id = uid)}

\* delete(task_id)
delete(c, task_id) ==
    IF ~current_user(c) THEN login_required(c, "delete", P_delete(task_id))
    ELSE /\ LeaveFlow(c)
         /\ tasks' = DeleteRows(task_id, session[c])
         /\ resp' = Redirect(c, "delete", P_delete(task_id), "task_deleted", P_index)
         /\ UNCHANGED <<users, categories, task_seq, session, probe>>

\* UPDATE tasks SET title=?, description=?, category_id=?, deadline=?,
\* completed=? WHERE id=? AND user_id=?
UpdateRows(task_id, uid, title, description, category_id, deadline, completed) ==
    {IF t.id = task_id /\ t.user_id = uid
     THEN [t EXCEPT !.title = title, !.description = description,
                    !.category_id = IntegerAffinity(category_id),
                    !.deadline = deadline, !.completed = completed]
     ELSE t : t \in tasks}

\* edit(task_id), POST
edit(c, task_id, title_form, description_form, category_form, deadline_form, completed_form) ==
    IF ~current_user(c) THEN login_required(c, "edit", P_edit(task_id))
    ELSE LET title == Strip(OrEmpty(title_form))
             description == Strip(OrEmpty(description_form))
             category_id == OrNone(category_form)
             deadline == OrNone(deadline_form)
             completed == IF completed_form = S_on THEN 1 ELSE 0
         IN  /\ LeaveFlow(c)
             /\ UNCHANGED <<users, categories, task_seq, session, probe>>
             /\ IF title = <<>>
                THEN /\ resp' = Redirect(c, "edit", P_edit(task_id), "title_required", P_edit(task_id))
                     /\ UNCHANGED tasks
                ELSE /\ tasks' = UpdateRows(task_id, session[c], title, description,
                                            category_id, deadline, completed)
                     /\ resp' = Redirect(c, "edit", P_edit(task_id), "task_updated", P_index)

\* edit(task_id), GET
edit_get(c, task_id) ==
    IF ~current_user(c) THEN login_required(c, "edit", P_edit(task_id))
    ELSE /\ LeaveFlow(c)
         /\ UNCHANGED <<db, session, probe>>
         /\ IF OwnTask(task_id, session[c]) = {}
            THEN resp' = Redirect(c, "edit", P_edit(task_id), "task_not_found", P_index)
            ELSE \E cats \in ListCategories(session[c]) :
                 \E task \in OwnTask(task_id, session[c]) :
                    resp' = Render(c, "edit", P_edit(task_id), "edit.html",
                                   View(<<task>>, cats, <<>>, <<>>, <<>>))

(* ------------------------------ specification -------------------------- *)
\* The server has answered: the response leaves, the request context ends.
Respond ==
    /\ resp # NoResponse
    /\ resp' = NoResponse
    /\ UNCHANGED <<db, session, nav, gated, probe>>

\* The database file is new; a cookie signed with the fixed secret_key may
\* still carry a user id from a database that was since removed.
Init ==
    /\ users = <<>>
    /\ categories = <<>>
    /\ tasks = {}
    /\ task_seq = 0
    /\ session \in [Clients -> 0..MaxUsers]
    /\ nav = [c \in Clients |-> NoPath]
    /\ gated = [c \in Clients |-> NoPath]
    /\ resp = NoResponse
    /\ probe = NoProbe

\* The server takes the next request once the last one is answered.
Idle == resp = NoResponse

\* The application with the task fields explored.
Next ==
    \/ Respond
    \/ \E c \in Clients, u \in FewUsernames, p \in FewPasswords : Idle /\ register(c, u, p)
    \/ \E c \in Clients, u \in FewUsernames, p \in FewPasswords : Idle /\ login(c, u, p)
    \/ \E c \in Clients : Idle /\ register_get(c)
    \/ \E c \in Clients : Idle /\ login_get(c)
    \/ \E c \in Clients : Idle /\ logout(c)
    \/ \E c \in Clients : Idle /\ home_redirect(c)
    \/ \E c \in Clients, n \in NameForms : Idle /\ add_category(c, n)
    \/ \E c \in Clients, q \in SearchArgs, cat \in CategoryArgs, s \in SortArgs, td \in Todays :
          Idle /\ index(c, q, cat, s, td)
    \/ \E c \in Clients, ft \in FormTypes, t \in TitleForms, d \in DescriptionForms,
          cat \in CategoryForms, dl \in DeadlineForms, td \in Todays :
          Idle /\ index_post(c, ft, t, d, cat, dl, td)
    \/ \E c \in Clients, id \in TaskIds : Idle /\ toggle(c, id)
    \/ \E c \in Clients, id \in TaskIds : Idle /\ delete(c, id)
    \/ \E c \in Clients, id \in TaskIds, t \in TitleForms, d \in DescriptionForms,
          cat \in CategoryForms, dl \in DeadlineForms, done \in CompletedForms :
          Idle /\ edit(c, id, t, d, cat, dl, done)
    \/ \E c \in Clients, id \in TaskIds : Idle /\ edit_get(c, id)

Spec == Init /\ [][Next]_vars

\* The application with the accounts, the sessions and the gate explored.
NextAuth ==
    \/ Respond
    \/ \E c \in Clients, u \in UsernameForms, p \in PasswordForms : Idle /\ register(c, u, p)
    \/ \E c \in Clients : Idle /\ register_get(c)
    \/ \E c \in Clients, u \in UsernameForms, p \in PasswordForms : Idle /\ login(c, u, p)
    \/ \E c \in Clients : Idle /\ login_get(c)
    \/ \E c \in Clients : Idle /\ logout(c)
    \/ \E c \in Clients : Idle /\ home_redirect(c)
    \/ \E c \in Clients, n \in NameForms : Idle /\ add_category(c, n)
    \/ \E c \in Clients, q \in SearchArgs, cat \in CategoryArgs, s \in SortArgs, td \in Todays :
          Idle /\ index(c, q, cat, s, td)
    \/ \E c \in Clients, ft \in FormTypes, t \in FewTitles, d \in DescriptionForms,
          cat \in FewCategories, dl \in FewDeadlines, td \in Todays :
          Idle /\ index_post(c, ft, t, d, cat, dl, td)
    \/ \E c \in Clients, id \in TaskIds : Idle /\ toggle(c, id)
    \/ \E c \in Clients, id \in TaskIds : Idle /\ delete(c, id)
    \/ \E c \in Clients, id \in TaskIds, t \in FewTitles, d \in DescriptionForms,
          cat \in FewCategories, dl \in FewDeadlines, done \in FewCompleted :
          Idle /\ edit(c, id, t, d, cat, dl, done)
    \/ \E c \in Clients, id \in TaskIds : Idle /\ edit_get(c, id)

SpecAuth == Init /\ [][NextAuth]_vars

(* ------------------------------ status probes -------------------------- *)
\* "2024-01-31"
DP_1 == <<50, 48, 50, 52, 45, 48, 49, 45, 51, 49>>
\* "2024-02-01"
DP_2 == <<50, 48, 50, 52, 45, 48, 50, 45, 48, 49>>
\* "2024-02-02"
DP_3 == <<50, 48, 50, 52, 45, 48, 50, 45, 48, 50>>
\* "2024-1-31"
DP_4 == <<50, 48, 50, 52, 45, 49, 45, 51, 49>>
\* "2024-2-1"
DP_5 == <<50, 48, 50, 52, 45, 50, 45, 49>>
\* "2024-02-29"
DP_6 == <<50, 48, 50, 52, 45, 48, 50, 45, 50, 57>>
\* "2023-02-29"
DP_7 == <<50, 48, 50, 51, 45, 48, 50, 45, 50, 57>>
\* "2024-02-30"
DP_8 == <<50, 48, 50, 52, 45, 48, 50, 45, 51, 48>>
\* "2024-13-01"
DP_9 == <<50, 48, 50, 52, 45, 49, 51, 45, 48, 49>>
\* "2024-01-31x"
DP_10 == <<50, 48, 50, 52, 45, 48, 49, 45, 51, 49, 120>>
\* "abc"
DP_11 == <<97, 98, 99>>
\* "0000-01-01"
DP_12 == <<48, 48, 48, 48, 45, 48, 49, 45, 48, 49>>
\* "2024-01- 5"
DP_13 == <<50, 48, 50, 52, 45, 48, 49, 45, 32, 53>>
\* "2024-01-00"
DP_14 == <<50, 48, 50, 52, 45, 48, 49, 45, 48, 48>>
\* "24-01-31"
DP_15 == <<50, 52, 45, 48, 49, 45, 51, 49>>
\* "2024-01-32"
DP_16 == <<50, 48, 50, 52, 45, 48, 49, 45, 51, 50>>

\* The deadlines compute_task_status is applied to: NULL, the empty text, dates
\* before, on and after the probe days, unpadded and malformed texts.
DeadlineProbes ==
    {Absent, S_empty,
     DP_1, DP_2, DP_3, DP_4, DP_5, DP_6,
     DP_7, DP_8, DP_9, DP_10, DP_11, DP_12,
     DP_13, DP_14, DP_15, DP_16}

Day(y, m, d) == [ok |-> TRUE, y |-> y, m |-> m, d |-> d]

TodayProbes ==
    {Day(2023, 12, 31), Day(2024, 1, 31), Day(2024, 2, 1), Day(2024, 2, 29), Day(2024, 3, 1)}

\* An application of compute_task_status is drawn, then made.
InitStatus ==
    /\ users = <<>>
    /\ categories = <<>>
    /\ tasks = {}
    /\ task_seq = 0
    /\ session = [c \in Clients |-> 0]
    /\ nav = [c \in Clients |-> NoPath]
    /\ gated = [c \in Clients |-> NoPath]
    /\ resp = NoResponse
    /\ probe \in {[NoProbe EXCEPT !.completed = done, !.deadline = dl, !.today = td] :
                     done \in {0, 1}, dl \in DeadlineProbes, td \in TodayProbes}

Status ==
    /\ probe.status = ""
    /\ LET st == compute_task_status(probe.completed, probe.deadline, probe.today)
       IN  probe' = [probe EXCEPT !.status = st[1], !.overdue = st[2]]
    /\ UNCHANGED <<db, session, nav, gated, resp>>

NextStatus == Status

SpecStatus == InitStatus /\ [][NextStatus]_vars

(* ------------------------------ C4 ------------------------------------- *)
\* What Python's datetime.strptime(text, "%Y-%m-%d").date() gives for each
\* probe that it accepts, as the number yyyymmdd (observed on CPython); it
\* raises ValueError for every other probe.
StrptimeAccepts ==
    DP_1 :> 20240131 @@
    DP_2 :> 20240201 @@
    DP_3 :> 20240202 @@
    DP_4 :> 20240131 @@
    DP_5 :> 20240201 @@
    DP_6 :> 20240229 @@
    DP_13 :> 20240105

DayNumber(day) == day.y * 10000 + day.m * 100 + day.d

\* C4: compute_task_status is the three-rule policy: completed gives (done,
\* not overdue) whatever the deadline; otherwise a deadline that is present,
\* parses and lies strictly before today gives (overdue, overdue); otherwise
\* (no deadline, today or later, unparsable) (in progress, not overdue).
C4_StatusPolicy ==
    probe.status # "" =>
        IF probe.completed # 0
        THEN probe.status = "done" /\ ~probe.overdue
        ELSE IF /\ probe.deadline \in DOMAIN StrptimeAccepts
                /\ StrptimeAccepts[probe.deadline] < DayNumber(probe.today)
        THEN probe.status = "overdue" /\ probe.overdue
        ELSE probe.status = "in_progress" /\ ~probe.overdue

\* An open task whose deadline is today has been given its status.
C4_Witness ==
    /\ probe.status = "in_progress"
    /\ probe.completed = 0
    /\ probe.deadline \in DOMAIN StrptimeAccepts
    /\ StrptimeAccepts[probe.deadline] = DayNumber(probe.today)

(* ------------------------------ arguments ------------------------------ *)
S_pct == <<37>>
S_z == <<122>>
S_2 == <<50>>
S_01 == <<48, 49>>

\* The query arguments the listing claims range over.
AllSearchArgs == {Absent, S_sp_a, S_z, S_pct}
AllCategoryArgs == {Absent, S_all, S_1, S_01, S_2}
AllSortArgs == {Absent, S_deadline, S_created, S_z}

\* The lists index may render for client c, over every argument combination.
Listings(c, sorts) ==
    UNION {ListTasks(session[c], q, cat, s, td) :
              q \in AllSearchArgs, cat \in AllCategoryArgs, s \in sorts, td \in Todays}

\* The acting user of client c exists in users.
ActingUser(c) == \E i \in 1..Len(users) : users[i].id = session[c]

OwnerOf(task_id) == {t.user_id : t \in {x \in tasks : x.id = task_id}}

\* The list a rendered index response carries.
IndexRendered == resp.route = "index" /\ resp.kind = "render"

(* ------------------------------ C1 ------------------------------------- *)
\* C1: the task list index produces for the acting user holds only tasks
\* whose user_id is that user's, for every search text, category filter and
\* sort key: in the response it renders, and for every argument combination
\* it could be asked with between two requests.
C1_TenantIsolation ==
    /\ IndexRendered =>
          \A i \in 1..Len(resp.view.rows) :
             OwnerOf(resp.view.rows[i].id) = {session[resp.client]}
    /\ resp = NoResponse =>
          \A c \in Clients :
             ActingUser(c) =>
                \A rows \in Listings(c, AllSortArgs) :
                   \A i \in 1..Len(rows) : OwnerOf(rows[i].id) = {session[c]}

\* A list was rendered for one user while another user's task is stored.
C1_Witness ==
    /\ IndexRendered
    /\ Len(resp.view.rows) >= 1
    /\ \E t \in tasks : t.user_id # session[resp.client]

(* ------------------------------ C2 ------------------------------------- *)
\* Client c's request is toggle, delete or a POST to edit for task_id.
MutatesTask(c, task_id) ==
    \/ toggle(c, task_id)
    \/ delete(c, task_id)
    \/ \E t \in TitleForms, d \in DescriptionForms, cat \in CategoryForms,
          dl \in DeadlineForms, done \in CompletedForms :
          edit(c, task_id, t, d, cat, dl, done)

\* C2: toggle, delete and edit (POST, any form values) issued under the
\* session of a user other than the task's owner leave the tasks unchanged:
\* the task is still there with the same fields.
C2_CrossUserFrame ==
    [][tasks' # tasks =>
          \A c \in Clients, task_id \in TaskIds :
             ~(/\ ActingUser(c)
               /\ OwnerOf(task_id) # {}
               /\ session[c] \notin OwnerOf(task_id)
               /\ MutatesTask(c, task_id))]_vars

\* A delete by a user who does not own the task was answered, and the task
\* is stored.
C2_Witness ==
    /\ resp.route = "delete"
    /\ resp.flash = "task_deleted"
    /\ \E t \in tasks :
          /\ resp.path = P_delete(t.id)
          /\ t.user_id # session[resp.client]

(* ------------------------------ C7 ------------------------------------- *)
\* A listed task without a deadline: NULL, or the empty text of an empty form field.
NoDeadline(row) == row.deadline = Absent \/ row.deadline = <<>>

DeadlineOrder(rows) ==
    \A i, j \in 1..Len(rows) :
       i < j =>
          /\ ~(NoDeadline(rows[i]) /\ ~NoDeadline(rows[j]))
          /\ (~NoDeadline(rows[i]) /\ ~NoDeadline(rows[j])
                => ~TextLess(rows[j].deadline, rows[i].deadline))

C9_NotFoundReported ==
    [][(/\ resp = NoResponse
        /\ resp'.route \in {"toggle", "delete", "edit"}
        /\ ActingUser(resp'.client)
        /\ session[resp'.client] \notin OwnerOf(resp'.path[2]))
       => (/\ resp'.flash = "task_not_found"
           /\ resp'.kind = "redirect"
           /\ resp'.target = P_index)]_vars

(* ------------------------------ C10 ------------------------------------ *)
\* C10: no task carries the category_id of a category of another user, so
\* listing as user u with the id of another user's category as the filter
\* gives the empty list.
C10_NoForeignCategory ==
    /\ \A t \in tasks : \A i \in 1..Len(categories) :
          SqlEq(t.category_id, ToDigits(categories[i].id))
             => categories[i].user_id = t.user_id
    /\ resp = NoResponse =>
          \A c \in Clients : \A i \in 1..Len(categories) :
             (ActingUser(c) /\ categories[i].user_id # session[c]) =>
                \A q \in AllSearchArgs, s \in AllSortArgs, td \in Todays :
                   ListTasks(session[c], q, ToDigits(categories[i].id), s, td) = {<<>>}

(* ------------------------------ C3 ------------------------------------- *)
AuthenticatedRoutes == {"index", "add_category", "toggle", "delete", "edit"}

\* C3: a request to an authenticated route under a session with no user id,
\* or with one that matches no stored user, is answered with the redirect to
\* login and leaves users, categories and tasks as they were.
C3_GateGuards ==
    [][(/\ resp = NoResponse
        /\ resp'.route \in AuthenticatedRoutes
        /\ ~ActingUser(resp'.client))
       => (/\ resp'.kind = "redirect"
           /\ resp'.target = P_login
           /\ users' = users
           /\ categories' = categories
           /\ tasks' = tasks
           /\ task_seq' = task_seq)]_vars

\* The gate turned away a cookie whose user id matches none of the stored users.
C3_Witness ==
    /\ resp.route \in AuthenticatedRoutes
    /\ resp.target = P_login
    /\ users # <<>>
    /\ session[resp.client] # 0
    /\ ~ActingUser(resp.client)

(* ------------------------------ C5 ------------------------------------- *)
UniqueUsernames ==
    \A i, j \in 1..Len(users) : i # j => users[i].username # users[j].username

NameTaken(username) == \E i \in 1..Len(users) : users[i].username = username

WrongPassword(u, p) ==
    \E i \in 1..Len(users) :
       /\ users[i].username = Strip(u)
       /\ users[i].password_hash.digest # <<users[i].password_hash.salt, p>>

LoginFailure(c) == Redirect(c, "login", P_login, "invalid_credentials", P_login)

\* C6: a login with a stored username and a wrong password and a login with
\* an unknown username have the same outcome: the same generic message, the
\* same redirect to login, and the session's user id as it was.
C6_SameFailure ==
    /\ (resp.route = "login" /\ resp.kind = "redirect" /\ resp.flash # "logged_in")
          => resp = LoginFailure(resp.client)
    /\ resp = NoResponse =>
          \A c \in Clients :
          \A u1 \in UsernameForms \ {Absent}, u2 \in UsernameForms \ {Absent} :
          \A p1 \in PasswordForms \ {Absent}, p2 \in PasswordForms \ {Absent} :
          \A nxt \in {NoPath, P_index, P_add_category} :
             (WrongPassword(u1, p1) /\ ~NameTaken(Strip(u2))) =>
                LET known == LoginOutcome(c, u1, p1, nxt)
                    unknown == LoginOutcome(c, u2, p2, nxt)
                IN  /\ known = unknown
                    /\ known.resp = LoginFailure(c)
                    /\ known.uid = session[c]

\* A logged-in client failed a login while users are stored, and is still
\* logged in as before.
C6_Witness ==
    /\ resp = LoginFailure(resp.client)
    /\ Len(users) = MaxUsers
    /\ ActingUser(resp.client)

(* ------------------------------ C8 ------------------------------------- *)
\* C8: after the gate turned a request for path P away to login, the next
\* successful login of that flow redirects to P, also when failed login
\* attempts came in between.
C8_ReturnsToRequestedPath ==
    (resp.route = "login" /\ resp.flash = "logged_in" /\ resp.flow # NoPath)
       => resp.target = resp.flow

====
